---- MODULE Spec2Model ----
(***************************************************************************)
(* Model of scrape/scrape.py: the output orchestration of the scrape       *)
(* command (target classification, single/multiple mode, part files,       *)
(* working directory, failure recovery).                                   *)
(*                                                                         *)
(* Strings are sequences of tokens.  A token is one character, except      *)
(* "http://" (the scheme prefix), which is kept as one token.  The         *)
(* extensions are shortened to one letter: "h" html, "c" com, "t" txt,     *)
(* "p" pdf.                                                                *)
(***************************************************************************)
EXTENDS Integers, Sequences, FiniteSets, TLC

(* ---------------------------- bounds ---------------------------------- *)
MaxQuery == 2         \* longest query list
MaxOut == 2           \* most explicit output names
MaxInitParts == 1     \* most part files present before the run
MaxCrawl == 1         \* most part files one crawl creates

(* ------------------------- input alphabet ----------------------------- *)
EmptyStr == << >>
SCHEME == "http://"
FileReport == <<"r", ".", "h">>                \* report.html, a local file
FileReadme == <<"R">>                          \* README, a local file
UrlFullSlash == <<SCHEME, "x", ".", "c", "/">> \* http://x.com/
UrlNoScheme == <<"y", ".", "c">>               \* y.com
UrlBare == <<"z">>                             \* z
LocalFiles == {FileReport, FileReadme}
QueryStrings == {FileReport, FileReadme, UrlFullSlash, UrlNoScheme, UrlBare}
OutNames == << <<"o1">>, <<"o2", ".", "t">>, <<"o3">>, <<"o4">> >>
Formats == {"print", "pdf", "text", "html"}

(* --------------------------- string helpers --------------------------- *)
RECURSIVE LStrip(_)
LStrip(s) == IF s # << >> /\ Head(s) = "/" THEN LStrip(Tail(s)) ELSE s

RECURSIVE RStrip(_)
RStrip(s) ==
    IF s # << >> /\ s[Len(s)] = "/" THEN RStrip(SubSeq(s, 1, Len(s) - 1)) ELSE s

\* str.strip('/')
Strip(s) == RStrip(LStrip(s))

\* sub in s, for strings
Contains(sub, s) ==
    \E k \in 0..(Len(s) - Len(sub)) : SubSeq(s, k + 1, k + Len(sub)) = sub

\* str.endswith
EndsWith(s, suf) ==
    Len(s) >= Len(suf) /\ SubSeq(s, Len(s) - Len(suf) + 1, Len(s)) = suf

\* x in list
InList(x, l) == \E k \in 1..Len(l) : l[k] = x

\* str.split('.')
RECURSIVE Split(_)
Split(s) ==
    IF \A k \in 1..Len(s) : s[k] # "."
    THEN << s >>
    ELSE LET d == CHOOSE k \in 1..Len(s) : s[k] = "." /\ \A j \in 1..(k - 1) : s[j] # "."
         IN  << SubSeq(s, 1, d - 1) >> \o Split(SubSeq(s, d + 1, Len(s)))

\* '.'.join(pieces)
RECURSIVE Join(_)
Join(pieces) ==
    IF pieces = << >> THEN << >>
    ELSE IF Len(pieces) = 1 THEN pieces[1]
    ELSE pieces[1] \o <<".">> \o Join(Tail(pieces))

\* '.'.join(name.split('.')[:-1])
DropExt(name) == LET p == Split(name) IN Join(SubSeq(p, 1, Len(p) - 1))

LowerTok(c) == IF c = "R" THEN "r" ELSE c
\* str.lower()
Lower(s) == [k \in 1..Len(s) |-> LowerTok(s[k])]

\* [f(x) for x in l if keep]
RECURSIVE FilterNotIn(_, _)
FilterNotIn(l, excl) ==
    IF l = << >> THEN << >>
    ELSE IF InList(Head(l), excl) THEN FilterNotIn(Tail(l), excl)
    ELSE << Head(l) >> \o FilterNotIn(Tail(l), excl)

(* ------------------------ utils collaborators ------------------------- *)
\* os.path.isfile
isfile(arg) == arg \in LocalFiles

check_scheme(url) == url # << >> /\ Head(url) = SCHEME
add_scheme(url) == << SCHEME >> \o url
remove_scheme(url) == IF check_scheme(url) THEN Tail(url) ELSE url
check_url_ext(url) == \E k \in 1..Len(url) : url[k] = "."
add_url_ext(url) == IF check_url_ext(url) THEN url ELSE url \o <<".", "c">>

\* the host label of the URL: what follows the scheme, up to the first '.' or '/'
RECURSIVE Label(_)
Label(s) ==
    IF s = << >> \/ Head(s) \in {".", "/"} THEN << >>
    ELSE << Head(s) >> \o Label(Tail(s))
get_domain(url) == Label(remove_scheme(url))

\* a slug of domain and path; the model's URLs have no path
get_outfilename(url, domain) == Lower(domain)

(* ------------------------------ state --------------------------------- *)
VARIABLES
    args,         \* the argument dict of scrape()
    userQuery,    \* args['query'] as the user supplied it
    userMode,     \* the mode flag the user gave: "single", "multiple" or "none"
    pc,           \* position in scrape()
    i,            \* index of the query item of the running loop (1-based)
    infilenames,  \* infilenames of write_single_file / write_multiple_files
    domain,       \* domain of write_single_file / write_multiple_files
    cwd,          \* current working directory, relative to base_dir
    parts,        \* part files on disk: [dir, num, item]
    entryParts,   \* parts when scrape() was entered
    exc,          \* exception in flight, "none" if none
    raisedBy,     \* what raised first in this run, "none" if nothing did
    result,       \* how scrape() ended: "running", "True", "False", "raised"
    conv,         \* conversions dispatched: [kind, infiles, out, item, src, outIdx]
    crawls,       \* crawl() calls: [url, domain, pages]
    mkdirs,       \* mkdir_and_cd calls: [from, domain]
    processed,    \* indexes of query items whose loop iteration ran
    failedAt      \* index of the item whose fetch returned no content, 0 if none

vars == << args, userQuery, userMode, pc, i, infilenames, domain, cwd, parts, entryParts,
           exc, raisedBy, result, conv, crawls, mkdirs, processed, failedAt >>

base_dir == << >>

RECURSIVE SeqsUpTo(_, _)
SeqsUpTo(S, n) ==
    IF n = 0 THEN {<< >>}
    ELSE LET shorter == SeqsUpTo(S, n - 1)
         IN  shorter \cup {Append(q, x) : q \in {r \in shorter : Len(r) = n - 1}, x \in S}

OutLists ==
    {SubSeq(OutNames, 1, n) : n \in 0..MaxOut} \cup {<< EmptyStr >>}

PartNames(ps, dir) == {p \in ps : p.dir = dir}
get_num_part_files(ps, dir) == Cardinality(PartNames(ps, dir))
remove_part_files(ps, dir) == ps \ PartNames(ps, dir)

Init ==
    /\ \E q \in SeqsUpTo(QueryStrings, MaxQuery) \ {<< >>},
          o \in OutLists, f \in Formats, c \in BOOLEAN,
          s \in BOOLEAN, m \in BOOLEAN :
          /\ ~(s /\ m)
          /\ args = [query |-> q, out |-> o, single |-> s, multiple |-> m,
                     print |-> f = "print", pdf |-> f = "pdf", text |-> f = "text",
                     html |-> f = "html", crawl_all |-> c,
                     files |-> << >>, urls |-> << >>]
    /\ userQuery = args.query
    /\ userMode = IF args.single THEN "single" ELSE IF args.multiple THEN "multiple" ELSE "none"
    /\ pc = "scrape"
    /\ i = 0
    /\ infilenames = << >>
    /\ domain = << >>
    /\ cwd = base_dir
    /\ \E n \in 0..MaxInitParts :
          parts = {[dir |-> base_dir, num |-> k, item |-> 0] : k \in 1..n}
    /\ entryParts = parts
    /\ exc = "none"
    /\ raisedBy = "none"
    /\ result = "running"
    /\ conv = << >>
    /\ crawls = << >>
    /\ mkdirs = << >>
    /\ processed = {}
    /\ failedAt = 0

(* ------------------------- part-file store ---------------------------- *)
\* utils.write_part_file, or the pages a crawl saves: k new files numbered after
\* the ones present in dir
write_part_files(ps, dir, k, item) ==
    ps \cup {[dir |-> dir, num |-> get_num_part_files(ps, dir) + j, item |-> item] : j \in 1..k}

LocalName(name) == [name |-> name, num |-> 0]
PartName(n) == [name |-> <<"PART">>, num |-> n]
\* utils.get_part_filenames(curr, prev): PART(prev+1) .. PART(curr)
get_part_filenames(curr, prev) == [j \in 1..(curr - prev) |-> PartName(prev + j)]

\* utils.mkdir_and_cd
mkdir_and_cd(dir, d) == Append(dir, d)

(* --------------------------- scrape(): setup -------------------------- *)
\* a planner that also splits the output when a single output name is given
PlanModeAnyOut(a) ==
    IF ~a.single /\ ~a.multiple
    THEN IF Len(a.query) > 1 \/ Len(a.out) > 0
         THEN [a EXCEPT !.multiple = TRUE]
         ELSE [a EXCEPT !.single = TRUE]
    ELSE a

\* a planner that looks at the output names only
PlanModeOutOnly(a) ==
    IF ~a.single /\ ~a.multiple
    THEN IF Len(a.out) > 1
         THEN [a EXCEPT !.multiple = TRUE]
         ELSE [a EXCEPT !.single = TRUE]
    ELSE a

\* lines 269-275: single or multiple
PlanMode(a) ==
    IF ~a.single /\ ~a.multiple
    THEN IF Len(a.query) > 1 \/ Len(a.out) > 1
         THEN [a EXCEPT !.multiple = TRUE]
         ELSE [a EXCEPT !.single = TRUE]
    ELSE a

RECURSIVE SplitFiles(_)
SplitFiles(q) ==
    IF q = << >> THEN << >>
    ELSE IF isfile(Head(q)) THEN << Head(q) >> \o SplitFiles(Tail(q))
    ELSE SplitFiles(Tail(q))

RECURSIVE SplitUrls(_)
SplitUrls(q) ==
    IF q = << >> THEN << >>
    ELSE IF isfile(Head(q)) THEN SplitUrls(Tail(q))
    ELSE << Strip(Head(q)) >> \o SplitUrls(Tail(q))

\* lines 288-291: the rewritten query
RewriteQuery(urls) ==
    LET urls_with_exts == [k \in 1..Len(urls) |-> add_url_ext(urls[k])]
    IN  [k \in 1..Len(urls) |->
            LET x == urls_with_exts[k]
            IN  IF InList(x, urls) /\ ~check_scheme(x) THEN add_scheme(x) ELSE x]

\* lines 277-292
Classify(a) ==
    LET files == SplitFiles(a.query)
        urls == SplitUrls(a.query)
    IN  IF urls # << >>
        THEN LET query == RewriteQuery(urls)
             IN  [a EXCEPT !.files = files, !.query = query,
                           !.urls = FilterNotIn(query, files)]
        ELSE [a EXCEPT !.files = files, !.urls = urls]

\* lines 294-297
DropFilesForHtml(a) == IF a.files # << >> /\ a.html THEN [a EXCEPT !.files = << >>] ELSE a

\* lines 263-302 up to the dispatch
Setup ==
    /\ pc = "scrape"
    /\ args' = DropFilesForHtml(Classify(PlanMode(args)))
    /\ pc' = IF args'.single THEN "single" ELSE "m_loop"
    /\ i' = 1
    /\ UNCHANGED << userQuery, userMode, infilenames, domain, cwd, parts, entryParts, exc,
                    raisedBy, result, conv, crawls, mkdirs, processed, failedAt >>

(* ------------------------- conversion dispatch ------------------------ *)
ConvKind(a) ==
    IF a.print THEN "print" ELSE IF a.pdf THEN "pdf" ELSE IF a.text THEN "text" ELSE "none"

\* lines 100-101 and 120-121
OutFileName(a, outfilename) ==
    IF ConvKind(a) = "pdf"
    THEN IF EndsWith(outfilename, <<".", "p">>) THEN outfilename ELSE outfilename \o <<".", "p">>
    ELSE IF ConvKind(a) = "text"
    THEN IF EndsWith(outfilename, <<".", "t">>) THEN outfilename ELSE outfilename \o <<".", "t">>
    ELSE outfilename

\* lines 140-145; item is the index of the query item converted (0: all of them)
\* and outIdx the index of the explicit output name used (0: a derived name)
Dispatch(a, log, infiles, outfilename, item, outIdx) ==
    IF ConvKind(a) = "none" THEN log
    ELSE Append(log, [kind |-> ConvKind(a), infiles |-> infiles,
                      out |-> OutFileName(a, outfilename), item |-> item,
                      src |-> IF item = 0 THEN EmptyStr ELSE a.query[item],
                      outIdx |-> outIdx])

\* a write_files that leaves the part files in place
WriteFilesPartsKept(a, ps, dir) == ps

\* write_files when the converter returns: lines 146-147
WriteFilesParts(a, ps, dir) ==
    IF a.urls # << >> /\ ~a.html THEN remove_part_files(ps, dir) ELSE ps

\* write_to_text / write_to_pdf when the writer raises: lines 104-107, 124-127
\* (print_text has no handler)
WriterRaiseParts(a, ps, dir) ==
    IF ConvKind(a) \in {"pdf", "text"} /\ a.urls # << >>
    THEN remove_part_files(ps, dir) ELSE ps

WriterErrors == {"WriterError", "KeyboardInterrupt"}

\* lines 150-160
RECURSIVE FirstOutName(_, _)
FirstOutName(a, q) ==
    IF q = << >> THEN EmptyStr
    ELSE IF InList(Head(q), a.files) THEN Lower(DropExt(Head(q)))
    ELSE IF \E k \in 1..Len(a.urls) : Contains(Strip(Head(q)), a.urls[k])
    THEN LET k == CHOOSE k \in 1..Len(a.urls) :
                     /\ Contains(Strip(Head(q)), a.urls[k])
                     /\ \A j \in 1..(k - 1) : ~Contains(Strip(Head(q)), a.urls[j])
         IN  get_outfilename(a.urls[k], get_domain(a.urls[k]))
    ELSE FirstOutName(a, Tail(q))
get_single_outfilename(a) == FirstOutName(a, a.query)

(* ------------------------ fetch collaborators ------------------------- *)
Crawling(a) == a.crawl_all

\* the names crawl() returns after saving k pages in dir
CrawlNames(ps, dir, k) ==
    get_part_filenames(get_num_part_files(ps, dir) + k, get_num_part_files(ps, dir))

\* one call crawl(args, q, d) that saved k pages
CrawlCall(q, d, k) == [url |-> q, domain |-> d, pages |-> k]

(* ------------------------- write_single_file -------------------------- *)
\* lines 165-173
SingleEnter ==
    /\ pc = "single"
    /\ domain' = IF args.urls # << >> THEN get_domain(args.urls[1]) ELSE domain
    /\ IF args.urls # << >> /\ args.html
       THEN /\ cwd' = mkdir_and_cd(cwd, domain')
            /\ mkdirs' = Append(mkdirs, [from |-> cwd, domain |-> domain'])
       ELSE UNCHANGED << cwd, mkdirs >>
    /\ infilenames' = << >>
    /\ i' = 1
    /\ pc' = "s_loop"
    /\ UNCHANGED << args, userQuery, userMode, parts, entryParts, exc, raisedBy, result,
                    conv, crawls, processed, failedAt >>

SingleIsUrl(q) == InList(Strip(q), args.urls)

\* lines 176-178: crawl() saves k pages and returns their names
SingleCrawl ==
    /\ pc = "s_loop" /\ i <= Len(args.query)
    /\ SingleIsUrl(args.query[i]) /\ Crawling(args)
    /\ \E k \in 0..MaxCrawl :
          /\ parts' = write_part_files(parts, cwd, k, i)
          /\ infilenames' = infilenames \o CrawlNames(parts, cwd, k)
          /\ crawls' = Append(crawls, CrawlCall(args.query[i], domain, k))
    /\ processed' = processed \cup {i}
    /\ i' = i + 1
    /\ UNCHANGED << args, userQuery, userMode, pc, domain, cwd, entryParts, exc, raisedBy,
                    result, conv, mkdirs, failedAt >>

\* line 178: crawl() raises after saving k pages
SingleCrawlRaise ==
    /\ pc = "s_loop" /\ i <= Len(args.query)
    /\ SingleIsUrl(args.query[i]) /\ Crawling(args)
    /\ \E k \in 0..MaxCrawl :
          /\ parts' = write_part_files(parts, cwd, k, i)
          /\ crawls' = Append(crawls, CrawlCall(args.query[i], domain, k))
    /\ processed' = processed \cup {i}
    /\ exc' = "CrawlError"
    /\ raisedBy' = "CrawlError"
    /\ pc' = "handler"
    /\ UNCHANGED << args, userQuery, userMode, i, infilenames, domain, cwd, entryParts,
                    result, conv, mkdirs, failedAt >>

\* lines 180-186: get_raw_resp returns content
SingleFetch ==
    /\ pc = "s_loop" /\ i <= Len(args.query)
    /\ SingleIsUrl(args.query[i]) /\ ~Crawling(args)
    /\ LET prev_part_num == get_num_part_files(parts, cwd)
           curr_part_num == prev_part_num + 1
       IN  /\ parts' = write_part_files(parts, cwd, 1, i)
           /\ infilenames' = infilenames \o get_part_filenames(curr_part_num, prev_part_num)
    /\ processed' = processed \cup {i}
    /\ i' = i + 1
    /\ UNCHANGED << args, userQuery, userMode, pc, domain, cwd, entryParts, exc, raisedBy,
                    result, conv, crawls, mkdirs, failedAt >>

\* a loop that skips the item whose fetch returned None and goes on
SingleFetchNoneSkips ==
    /\ pc = "s_loop" /\ i <= Len(args.query)
    /\ SingleIsUrl(args.query[i]) /\ ~Crawling(args)
    /\ processed' = processed \cup {i}
    /\ failedAt' = i
    /\ i' = i + 1
    /\ UNCHANGED << args, userQuery, userMode, pc, result, infilenames, domain, cwd,
                    parts, entryParts, exc, raisedBy, conv, crawls, mkdirs >>

\* lines 180, 187-188: get_raw_resp returns None
SingleFetchNone ==
    /\ pc = "s_loop" /\ i <= Len(args.query)
    /\ SingleIsUrl(args.query[i]) /\ ~Crawling(args)
    /\ processed' = processed \cup {i}
    /\ failedAt' = i
    /\ result' = "False"
    /\ pc' = "done"
    /\ UNCHANGED << args, userQuery, userMode, i, infilenames, domain, cwd, parts, entryParts,
                    exc, raisedBy, conv, crawls, mkdirs >>

\* lines 189-190, and the item that is neither
SingleLocal ==
    /\ pc = "s_loop" /\ i <= Len(args.query)
    /\ ~SingleIsUrl(args.query[i])
    /\ infilenames' = IF InList(args.query[i], args.files)
                      THEN Append(infilenames, LocalName(args.query[i]))
                      ELSE infilenames
    /\ processed' = processed \cup {i}
    /\ i' = i + 1
    /\ UNCHANGED << args, userQuery, userMode, pc, domain, cwd, parts, entryParts, exc,
                    raisedBy, result, conv, crawls, mkdirs, failedAt >>

\* lines 198-201
SingleOutName(a) == IF a.out # << >> THEN a.out[1] ELSE get_single_outfilename(a)

SingleOutIdx(a) == IF a.out # << >> THEN 1 ELSE 0

\* lines 197, 202: write_files is called
SingleWrites(a, names) == ~a.html /\ names # << >> /\ SingleOutName(a) # EmptyStr

\* lines 192-206, the converter returning
SingleFinish ==
    /\ pc = "s_loop" /\ i > Len(args.query)
    /\ IF args.html
       THEN /\ cwd' = base_dir
            /\ UNCHANGED << parts, conv >>
       ELSE /\ cwd' = cwd
            /\ IF infilenames # << >>
               THEN IF SingleWrites(args, infilenames)
                    THEN /\ conv' = Dispatch(args, conv, infilenames, SingleOutName(args), 0, SingleOutIdx(args))
                         /\ parts' = WriteFilesParts(args, parts, cwd)
                    ELSE UNCHANGED << parts, conv >>
               ELSE /\ parts' = remove_part_files(parts, cwd)
                    /\ conv' = conv
    /\ result' = "True"
    /\ pc' = "done"
    /\ UNCHANGED << args, userQuery, userMode, i, infilenames, domain, entryParts, exc,
                    raisedBy, processed, failedAt, crawls, mkdirs >>

\* line 203, the converter raising
SingleWriteRaise ==
    /\ pc = "s_loop" /\ i > Len(args.query)
    /\ SingleWrites(args, infilenames) /\ ConvKind(args) # "none"
    /\ conv' = Dispatch(args, conv, infilenames, SingleOutName(args), 0, SingleOutIdx(args))
    /\ parts' = WriterRaiseParts(args, parts, cwd)
    /\ \E e \in WriterErrors : exc' = e /\ raisedBy' = e
    /\ pc' = "handler"
    /\ UNCHANGED << args, userQuery, userMode, i, infilenames, domain, cwd, entryParts,
                    result, crawls, mkdirs, processed, failedAt >>

(* ------------------------ write_multiple_files ------------------------ *)
MultiIsFile(q) == InList(q, args.files)
MultiIsUrl(q) == ~InList(q, args.files) /\ InList(q, args.urls)

\* lines 214-217 and 250-253; k is enumerate's index plus one
MultiOutName(a, k, q, d) ==
    IF a.out # << >> /\ k <= Len(a.out) THEN a.out[k]
    ELSE IF InList(q, a.files) THEN DropExt(q)
    ELSE get_outfilename(q, d)

MultiOutIdx(a, k) == IF a.out # << >> /\ k <= Len(a.out) THEN k ELSE 0

\* lines 212-218, the converter returning
MultiFile ==
    /\ pc = "m_loop" /\ i <= Len(args.query)
    /\ MultiIsFile(args.query[i])
    /\ conv' = Dispatch(args, conv, << LocalName(args.query[i]) >>,
                        MultiOutName(args, i, args.query[i], domain), i,
                        MultiOutIdx(args, i))
    /\ parts' = WriteFilesParts(args, parts, cwd)
    /\ processed' = processed \cup {i}
    /\ i' = i + 1
    /\ UNCHANGED << args, userQuery, userMode, pc, infilenames, domain, cwd, entryParts, exc,
                    raisedBy, result, crawls, mkdirs, failedAt >>

\* line 218, the converter raising
MultiFileRaise ==
    /\ pc = "m_loop" /\ i <= Len(args.query)
    /\ MultiIsFile(args.query[i]) /\ ConvKind(args) # "none"
    /\ conv' = Dispatch(args, conv, << LocalName(args.query[i]) >>,
                        MultiOutName(args, i, args.query[i], domain), i,
                        MultiOutIdx(args, i))
    /\ parts' = WriterRaiseParts(args, parts, cwd)
    /\ processed' = processed \cup {i}
    /\ \E e \in WriterErrors : exc' = e /\ raisedBy' = e
    /\ pc' = "handler"
    /\ UNCHANGED << args, userQuery, userMode, i, infilenames, domain, cwd, entryParts,
                    result, crawls, mkdirs, failedAt >>

\* lines 221-226
MultiEnterDomain ==
    /\ domain' = get_domain(args.query[i])
    /\ IF args.html
       THEN /\ cwd' = mkdir_and_cd(cwd, domain')
            /\ mkdirs' = Append(mkdirs, [from |-> cwd, domain |-> domain'])
       ELSE UNCHANGED << cwd, mkdirs >>

\* lines 219-231: crawl() saves k pages and returns their names
MultiCrawl ==
    /\ pc = "m_loop" /\ i <= Len(args.query)
    /\ MultiIsUrl(args.query[i]) /\ Crawling(args)
    /\ MultiEnterDomain
    /\ \E k \in 0..MaxCrawl :
          /\ parts' = write_part_files(parts, cwd', k, i)
          /\ infilenames' = CrawlNames(parts, cwd', k)
          /\ crawls' = Append(crawls, CrawlCall(args.query[i], domain', k))
    /\ processed' = processed \cup {i}
    /\ pc' = "m_write"
    /\ UNCHANGED << args, userQuery, userMode, i, entryParts, exc, raisedBy, result, conv,
                    failedAt >>

\* line 231: crawl() raises after saving k pages
MultiCrawlRaise ==
    /\ pc = "m_loop" /\ i <= Len(args.query)
    /\ MultiIsUrl(args.query[i]) /\ Crawling(args)
    /\ MultiEnterDomain
    /\ \E k \in 0..MaxCrawl :
          /\ parts' = write_part_files(parts, cwd', k, i)
          /\ crawls' = Append(crawls, CrawlCall(args.query[i], domain', k))
    /\ processed' = processed \cup {i}
    /\ exc' = "CrawlError"
    /\ raisedBy' = "CrawlError"
    /\ pc' = "handler"
    /\ UNCHANGED << args, userQuery, userMode, i, infilenames, entryParts, result, conv,
                    failedAt >>

\* lines 219-226, 233-240: get_raw_resp returns content
MultiFetch ==
    /\ pc = "m_loop" /\ i <= Len(args.query)
    /\ MultiIsUrl(args.query[i]) /\ ~Crawling(args)
    /\ MultiEnterDomain
    /\ LET prev_part_num == get_num_part_files(parts, cwd')
           curr_part_num == prev_part_num + 1
       IN  /\ parts' = write_part_files(parts, cwd', 1, i)
           /\ infilenames' = get_part_filenames(curr_part_num, prev_part_num)
    /\ processed' = processed \cup {i}
    /\ pc' = "m_write"
    /\ UNCHANGED << args, userQuery, userMode, i, entryParts, exc, raisedBy, result, conv,
                    crawls, failedAt >>

\* lines 219-226, 233, 241-242: get_raw_resp returns None
MultiFetchNone ==
    /\ pc = "m_loop" /\ i <= Len(args.query)
    /\ MultiIsUrl(args.query[i]) /\ ~Crawling(args)
    /\ MultiEnterDomain
    /\ processed' = processed \cup {i}
    /\ failedAt' = i
    /\ result' = "False"
    /\ pc' = "done"
    /\ UNCHANGED << args, userQuery, userMode, i, infilenames, parts, entryParts, exc,
                    raisedBy, conv, crawls >>

\* a loop that does not return to the base directory after an HTML target
MultiWriteStays ==
    /\ pc = "m_write"
    /\ cwd' = cwd
    /\ IF ~args.html /\ infilenames # << >>
       THEN /\ conv' = Dispatch(args, conv, infilenames,
                                MultiOutName(args, i, args.query[i], domain), i,
                                MultiOutIdx(args, i))
            /\ parts' = WriteFilesParts(args, parts, cwd)
       ELSE UNCHANGED << parts, conv >>
    /\ i' = i + 1
    /\ pc' = "m_loop"
    /\ UNCHANGED << args, userQuery, userMode, infilenames, domain, entryParts, exc,
                    raisedBy, result, crawls, mkdirs, processed, failedAt >>

\* lines 244-257, the converter returning
MultiWrite ==
    /\ pc = "m_write"
    /\ IF args.html
       THEN /\ cwd' = base_dir
            /\ UNCHANGED << parts, conv >>
       ELSE /\ cwd' = cwd
            /\ IF infilenames # << >>
               THEN /\ conv' = Dispatch(args, conv, infilenames,
                                        MultiOutName(args, i, args.query[i], domain), i,
                        MultiOutIdx(args, i))
                    /\ parts' = WriteFilesParts(args, parts, cwd)
               ELSE UNCHANGED << parts, conv >>
    /\ i' = i + 1
    /\ pc' = "m_loop"
    /\ UNCHANGED << args, userQuery, userMode, infilenames, domain, entryParts, exc, raisedBy,
                    result, crawls, mkdirs, processed, failedAt >>

\* line 254, the converter raising
MultiWriteRaise ==
    /\ pc = "m_write"
    /\ ~args.html /\ infilenames # << >> /\ ConvKind(args) # "none"
    /\ conv' = Dispatch(args, conv, infilenames,
                        MultiOutName(args, i, args.query[i], domain), i,
                        MultiOutIdx(args, i))
    /\ parts' = WriterRaiseParts(args, parts, cwd)
    /\ \E e \in WriterErrors : exc' = e /\ raisedBy' = e
    /\ pc' = "handler"
    /\ UNCHANGED << args, userQuery, userMode, i, infilenames, domain, cwd, entryParts,
                    result, crawls, mkdirs, processed, failedAt >>

\* lines 211-219: the item is neither in files nor in urls
MultiSkip ==
    /\ pc = "m_loop" /\ i <= Len(args.query)
    /\ ~MultiIsFile(args.query[i]) /\ ~MultiIsUrl(args.query[i])
    /\ processed' = processed \cup {i}
    /\ i' = i + 1
    /\ UNCHANGED << args, userQuery, userMode, pc, infilenames, domain, cwd, parts,
                    entryParts, exc, raisedBy, result, conv, crawls, mkdirs, failedAt >>

\* line 258
MultiReturn ==
    /\ pc = "m_loop" /\ i > Len(args.query)
    /\ result' = "True"
    /\ pc' = "done"
    /\ UNCHANGED << args, userQuery, userMode, i, infilenames, domain, cwd, parts, entryParts,
                    exc, raisedBy, conv, crawls, mkdirs, processed, failedAt >>

(* --------------------------- failure recovery ------------------------- *)
Running == pc \in {"scrape", "single", "s_loop", "m_loop", "m_write"}

\* KeyboardInterrupt between two steps of scrape()
Interrupt ==
    /\ Running
    /\ exc' = "KeyboardInterrupt"
    /\ raisedBy' = "KeyboardInterrupt"
    /\ pc' = "handler"
    /\ UNCHANGED << args, userQuery, userMode, i, infilenames, domain, cwd, parts, entryParts,
                    result, conv, crawls, mkdirs, processed, failedAt >>

\* a handler that forgets the part files
RecoverPartsKept(a, ps, dir) == ps

\* a handler that deletes the part files in HTML mode too
RecoverPartsAlways(a, ps, dir) == remove_part_files(ps, dir)

\* lines 304-310: what the handler leaves of the part files
RecoverParts(a, ps, dir) == IF a.html THEN ps ELSE remove_part_files(ps, dir)

\* lines 304-308
RecoverCwd(a, dir) == IF a.html THEN base_dir ELSE dir

\* a handler that swallows the exception and returns False
ReraiseSwallowed(e) == [result |-> "False", exc |-> "none"]

\* line 311: the handler re-raises the exception it caught
Reraise(e) == [result |-> "raised", exc |-> e]

\* lines 303-311
Handler ==
    /\ pc = "handler"
    /\ parts' = RecoverParts(args, parts, cwd)
    /\ cwd' = RecoverCwd(args, cwd)
    /\ result' = Reraise(exc).result
    /\ exc' = Reraise(exc).exc
    /\ pc' = "done"
    /\ UNCHANGED << args, userQuery, userMode, i, infilenames, domain, entryParts, raisedBy,
                    conv, crawls, mkdirs, processed, failedAt >>

Next ==
    \/ Setup
    \/ SingleEnter
    \/ SingleCrawl
    \/ SingleCrawlRaise
    \/ SingleFetch
    \/ SingleFetchNone
    \/ SingleLocal
    \/ SingleFinish
    \/ SingleWriteRaise
    \/ MultiFile
    \/ MultiFileRaise
    \/ MultiCrawl
    \/ MultiCrawlRaise
    \/ MultiFetch
    \/ MultiFetchNone
    \/ MultiWrite
    \/ MultiWriteRaise
    \/ MultiSkip
    \/ MultiReturn
    \/ Interrupt
    \/ Handler

Spec == Init /\ [][Next]_vars

(* ------------------------------ claims -------------------------------- *)
\* the setup of scrape() has run (it starts the loop index at the first item)
Classified == i > 0
\* the path of scrape() that is being, or was, executed (lines 299-302)
SingleMode == Classified /\ args.single
MultiMode == Classified /\ ~args.single /\ args.multiple
Exited == pc = "done"
\* the run has URL targets: some user-supplied item is not a local file
HasUrlTargets == SplitUrls(userQuery) # << >>
\* every crawl of the run saved at least one page
CrawlsSaved == \A k \in 1..Len(crawls) : crawls[k].pages > 0

\* C1: in multiple mode a fetch that returns no content for one URL target does
\* not stop the run: every later query item has been processed when
\* write_multiple_files returns.
C1_FetchFailureNonFatal ==
    (Exited /\ MultiMode /\ failedAt # 0)
        => \A k \in (failedAt + 1)..Len(args.query) : k \in processed

\* C2: in HTML mode, whichever way scrape() exits, the working directory at
\* exit is the working directory at entry.
C2_CwdRestoredOnExit ==
    (Exited /\ args.html) => cwd = base_dir

\* C3: after a failed non-HTML run with URL targets (a fetch without content,
\* the crawl or a writer raising) no part file remains in the working directory.
C3_NoPartsAfterFailedRun ==
    (Exited /\ ~args.html /\ args.urls # << >>
        /\ (failedAt # 0 \/ raisedBy \in {"CrawlError", "WriterError"}))
        => PartNames(parts, cwd) = {}

\* C4: after a successful non-HTML run with URL targets (every fetch and crawl
\* yielded pages, no conversion raised) no part file remains in the working
\* directory.
C4_NoPartsAfterSuccessfulRun ==
    (Exited /\ result = "True" /\ ~args.html /\ args.urls # << >> /\ CrawlsSaved)
        => PartNames(parts, cwd) = {}

\* C5: in a non-HTML run with URL targets, an error or interruption leaves
\* scrape() only after every part file has been deleted.
C5_CleanupBeforePropagation ==
    (Exited /\ result = "raised" /\ ~args.html /\ HasUrlTargets) => parts = {}

\* C5 witness: an interruption arrived after a page had been saved and before
\* any conversion; the error has left scrape() and the part files are gone.
C5_Witness ==
    /\ Exited /\ result = "raised" /\ ~args.html /\ HasUrlTargets
    /\ raisedBy = "KeyboardInterrupt"
    /\ \E k \in 1..Len(infilenames) : infilenames[k].num > 0
    /\ conv = << >>
    /\ parts = {}

\* C6: once the crawl, a writer or an interruption has raised, scrape() never
\* returns normally and ends by raising that same error.
C6_FailureNeverSuppressed ==
    raisedBy # "none"
        => /\ result \notin {"True", "False"}
           /\ exc = raisedBy
           /\ (Exited => result = "raised")

\* C6 witness: a writer raised, the part files were cleaned up and the writer's
\* error left scrape().
C6_Witness ==
    /\ Exited /\ raisedBy = "WriterError" /\ result = "raised" /\ exc = "WriterError"
    /\ conv # << >> /\ parts = {} /\ args.urls # << >>

\* C7: when every target is a local file and the text or PDF writer raises, no
\* part-file cleanup happens: the part files at exit are the part files at entry.
C7_LocalRunKeepsPartFiles ==
    (Exited /\ result = "raised" /\ raisedBy = "WriterError" /\ ~HasUrlTargets
        /\ (args.pdf \/ args.text))
        => parts = entryParts

\* the normalized form of a URL: trailing slashes trimmed, default extension
\* appended if there is none, default scheme prepended if there is none
NormalizedUrl(u) ==
    LET x == add_url_ext(Strip(u))
    IN  IF check_scheme(x) THEN x ELSE add_scheme(x)

\* x stands for the URL u in the rewritten list, with its scheme or (the scheme
\* is C9's subject) without
RewrittenFrom(x, u) == x \in {add_url_ext(Strip(u)), NormalizedUrl(u)}

\* C8: classification rewrites the query list position by position: same
\* length and order, local files unchanged, URLs replaced by their normalized
\* form.
C8_QueryRewrittenInPlace ==
    Classified
        => /\ Len(args.query) = Len(userQuery)
           /\ \A k \in 1..Len(userQuery) :
                 k <= Len(args.query)
                    => IF isfile(userQuery[k]) THEN args.query[k] = userQuery[k]
                       ELSE RewrittenFrom(args.query[k], userQuery[k])

\* C9: after classification every URL of the rewritten query list and of the
\* urls list carries a scheme.
C9_EveryUrlHasScheme ==
    Classified
        => /\ \A k \in 1..Len(args.urls) : check_scheme(args.urls[k])
           /\ \A k \in 1..Len(args.query) :
                 ~isfile(args.query[k]) => check_scheme(args.query[k])

\* the query item src is the target the user entered as u
SameTarget(src, u) == IF isfile(u) THEN src = u ELSE RewrittenFrom(src, u)

\* C10: in multiple mode an explicit output name out[k] is only ever applied to
\* the item the user entered at position k of the query list.
C10_OutNamesPositional ==
    MultiMode
        => \A n \in 1..Len(conv) :
              conv[n].outIdx # 0
                 => /\ conv[n].outIdx <= Len(userQuery)
                    /\ SameTarget(conv[n].src, userQuery[conv[n].outIdx])

OneLocalFile == Len(userQuery) = 1 /\ isfile(userQuery[1])

\* C11 as stated: one local file and no mode flag give single mode, whatever
\* the other options are.
C11_OneFileSingleMode ==
    (Classified /\ userMode = "none" /\ OneLocalFile)
        => SingleMode /\ pc \notin {"m_loop", "m_write"}

\* C11 amended: one local file and no mode flag give single mode when at most
\* one explicit output name was given, and multiple mode when more were.
C11_OneFileSingleModeUnlessOutNames ==
    (Classified /\ userMode = "none" /\ OneLocalFile)
        => IF Len(args.out) <= 1
           THEN SingleMode /\ pc \notin {"m_loop", "m_write"}
           ELSE MultiMode /\ pc \notin {"single", "s_loop"}

\* C11 witness: one local file, one output name, no flag: write_single_file has
\* converted it.
C11_Witness ==
    /\ Exited /\ userMode = "none" /\ OneLocalFile /\ Len(args.out) = 1
    /\ SingleMode /\ result = "True" /\ Len(conv) = 1 /\ conv[1].item = 0

\* C12: two or more query items and no mode flag give multiple mode:
\* write_multiple_files runs and write_single_file does not.
C12_ManyItemsMultipleMode ==
    (Classified /\ userMode = "none" /\ Len(userQuery) >= 2)
        => MultiMode /\ pc \notin {"single", "s_loop"}

\* C12 witness: two local files, no flag, no output name: write_multiple_files
\* has converted each on its own.
C12_Witness ==
    /\ Exited /\ userMode = "none" /\ Len(userQuery) = 2 /\ args.out = << >>
    /\ MultiMode /\ result = "True" /\ Len(conv) = 2
    /\ conv[1].item = 1 /\ conv[2].item = 2

\* C13: single mode never dispatches more than one conversion, and a non-HTML
\* run that returned normally with at least one input file gathered dispatched
\* exactly one.
C13_SingleModeOneConversion ==
    SingleMode
        => /\ Len(conv) <= 1
           /\ (Exited /\ result = "True" /\ ~args.html /\ infilenames # << >>)
                 => Len(conv) = 1

\* C14: one URL, crawl-all, PDF output: one crawl() call, every part file it
\* returned goes to the PDF converter, and the number of part files after the
\* run is the number before it.
C14_CrawlPdfRestoresPartCount ==
    (Exited /\ result = "True" /\ Len(userQuery) = 1 /\ HasUrlTargets
        /\ args.crawl_all /\ args.pdf)
        => /\ Len(crawls) = 1
           /\ crawls[1].pages > 0
                 => /\ Len(conv) = 1
                    /\ conv[1].kind = "pdf"
                    /\ conv[1].infiles =
                          get_part_filenames(Cardinality(entryParts) + crawls[1].pages,
                                             Cardinality(entryParts))
           /\ get_num_part_files(parts, base_dir) = Cardinality(entryParts)

\* C15: in single mode a fetch that returns no content ends the run without
\* raising: False is returned, no later item is fetched, nothing is converted.
C15_SingleFetchFailureAborts ==
    (SingleMode /\ failedAt # 0)
        => /\ Exited /\ result = "False"
           /\ raisedBy = "none" /\ exc = "none"
           /\ conv = << >>
           /\ processed = 1..failedAt

\* C15 witness: the first of two URLs returned no content; the run is over and
\* the second URL was never fetched.
C15_Witness ==
    /\ SingleMode /\ Exited /\ result = "False"
    /\ failedAt = 1 /\ Len(args.query) = 2 /\ SingleIsUrl(args.query[2])
    /\ processed = {1} /\ conv = << >>

\* the name without its last extension; a name without extension is kept
StripLastExt(name) == IF check_url_ext(name) THEN DropExt(name) ELSE name

\* C16: a local file without an explicit output name is converted under its
\* own name with the last extension stripped, characters unchanged, in single
\* and in multiple mode, whatever the name is.
C16_LocalFileDefaultName ==
    (Exited /\ result = "True" /\ ~args.html /\ ~HasUrlTargets /\ args.out = << >>)
        => IF SingleMode
           THEN /\ Len(conv) = 1
                /\ conv[1].out = OutFileName(args, StripLastExt(userQuery[1]))
           ELSE \A k \in 1..Len(userQuery) :
                   \E n \in 1..Len(conv) :
                      /\ conv[n].item = k
                      /\ conv[n].out = OutFileName(args, StripLastExt(userQuery[k]))

\* C17: every crawl() call is given the domain of the URL it crawls.
C17_CrawlGetsDomainOfItsUrl ==
    \A k \in 1..Len(crawls) : crawls[k].domain = get_domain(crawls[k].url)

\* C18: in multiple non-HTML mode, starting without part files, no part file
\* is present when the loop turns to a query item, and the files handed to the
\* conversion of an item are part files that were saved for that item.
C18_OneItemAtATime ==
    (MultiMode /\ ~args.html /\ entryParts = {})
        => /\ pc = "m_loop" => parts = {}
           /\ pc = "m_write"
                 => /\ \A p \in parts : p.item = i
                    /\ \A n \in 1..Len(infilenames) :
                          \E p \in parts : p.num = infilenames[n].num /\ p.dir = cwd

\* C18 witness: the first URL was fetched, converted and cleaned up; the loop
\* stands before the second URL with no part file on disk.
C18_Witness ==
    /\ MultiMode /\ ~args.html /\ entryParts = {}
    /\ pc = "m_loop" /\ i = 2 /\ Len(args.query) = 2 /\ MultiIsUrl(args.query[2])
    /\ Len(conv) = 1 /\ conv[1].item = 1 /\ conv[1].infiles[1].num = 1
    /\ parts = {}

\* in this state nothing was converted and no local file went to a collaborator
NothingConverted ==
    /\ conv = << >>
    /\ \A k \in 1..Len(crawls) : ~isfile(crawls[k].url)
    /\ \A n \in 1..Len(infilenames) : infilenames[n].num > 0
    /\ \A p \in parts : p.item > 0 => ~isfile(args.query[p.item])

\* C19: in HTML mode no conversion is dispatched, no local file is passed to a
\* collaborator and no part file is ever deleted, on any path of scrape().
C19_HtmlRetainsAndConvertsNothing ==
    /\ [](args.html => NothingConverted)
    /\ [][args.html => parts \subseteq parts']_vars

\* C19 witness: an HTML run over a local file and a URL has returned; the page
\* fetched for the URL is still on disk and nothing was converted.
C19_Witness ==
    /\ args.html /\ Exited /\ result = "True"
    /\ \E k \in 1..Len(userQuery) : isfile(userQuery[k])
    /\ \E p \in parts : p.item > 0
    /\ conv = << >>

\* C20: every mkdir_and_cd call is made from the directory scrape() started in.
C20_MkdirNeverNested ==
    \A k \in 1..Len(mkdirs) : mkdirs[k].from = base_dir

\* C20 witness: multiple HTML mode has entered the subdirectory of a second URL
\* target, both subdirectories lying directly under the starting directory.
C20_Witness ==
    /\ MultiMode /\ args.html /\ Len(mkdirs) = 2
    /\ mkdirs[1].from = base_dir /\ mkdirs[2].from = base_dir
    /\ mkdirs[1].domain # mkdirs[2].domain

====
